---- MODULE Spec2Model ----
(***************************************************************************)
(* Model of rust-clob-bridge/src/main.rs: the JSON-line command loop of    *)
(* the Polymarket CLOB bridge.  One input line is read, trimmed, parsed    *)
(* into a Command and dispatched; every remote call is awaited inline.     *)
(* Option<T> values are modelled as sequences of length 0 (None) or 1      *)
(* (Some(x)).                                                              *)
(***************************************************************************)
EXTENDS Integers, Sequences, FiniteSets, TLC

VARIABLES
    env_sig_type,   \* Option<u8> read from POLYMARKET_SIGNATURE_TYPE
    env_funder,     \* Option<String> read from POLYMARKET_PROXY_ADDRESS
    signer_address, \* address of the process-wide signer
    nread,          \* number of lines taken from reader.lines() so far
    line,           \* the raw line of the current iteration (history)
    cmd,            \* Option<Command> of the current iteration
    pc,             \* position of main: "read", an await point, or "done"
    sig_idx,        \* probe: index into sig_types of the current attempt
    results,        \* probe: the results vector
    client,         \* Option<session> held by the running handler
    order,          \* Option<order descriptor> held by the order handler
    inflight,       \* remote calls issued and not yet completed
    calls,          \* remote calls issued for the current line (history)
    out,            \* stdout lines written during the current iteration
    written         \* number of stdout lines written by earlier iterations

vars == <<env_sig_type, env_funder, signer_address, nread, line, cmd, pc,
          sig_idx, results, client, order, inflight, calls, out, written>>

\* ---------------------------------------------------------------- bounds
MaxLines == 2

\* ---------------------------------------------------------------- options
None == <<>>
Some(x) == <<x>>
IsSome(o) == Len(o) = 1
IsNone(o) == Len(o) = 0
Unwrap(o) == o[1]
\* Option::or
OrElse(a, b) == IF IsSome(a) THEN a ELSE b

\* ---------------------------------------------------------------- input
\* A raw line is a sequence of tokens: whitespace, a JSON object, or
\* anything that is not JSON.  A line whose read fails is the item IoErr.
Ws == [t |-> "ws"]
Junk == [t |-> "junk"]
IoErr == <<[t |-> "io-error"]>>

\* Numbers are kept as the text format!("{}", x) gives them.  1e30 is a
\* number that Decimal::from_str cannot represent (beyond 96 bits).
HugeNumber == "1000000000000000019884624838656"

Obj(c, tok, amt, prc, oid, sig, fnd) ==
    [t |-> "obj", cmd |-> c, token_id |-> tok, side |-> None, amount |-> amt,
     price |-> prc, order_id |-> oid, signature_type |-> sig,
     funder_address |-> fnd]

Plain(c) == Obj(Some(c), None, None, None, None, None, None)

GoodFunder == "0xF00D"
BadFunder == "not-an-address"
EnvFunder == "0xE000"

SigInputs == {None, Some(0), Some(1), Some(2), Some(3), Some(255), Some(256), Some(-1)}
FunderInputs == {None, Some(GoodFunder), Some(BadFunder)}

Objects ==
    {Plain(c) : c \in {"auth", "probe", "balance", "order", "cancel", "markets",
                       "exit", "quit", "Exit", "AUTH", "status"}}
    \cup {Obj(None, None, None, None, None, None, None)}
    \cup {Obj(Some(c), None, None, None, None, s, None) :
             c \in {"auth", "balance"}, s \in SigInputs}
    \cup {Obj(Some("auth"), None, None, None, None, s, f) :
             s \in {None, Some(0)}, f \in FunderInputs}
    \cup {Obj(Some(c), None, None, None, None, None, f) :
             c \in {"probe", "balance"}, f \in FunderInputs}
    \cup {Obj(Some("order"), tok, amt, prc, None, None, None) :
             tok \in {None, Some("123"), Some("abc")},
             amt \in {None, Some("5"), Some(HugeNumber)},
             prc \in {None, Some("0.5"), Some(HugeNumber)}}
    \cup {Obj(Some("order"), Some("123"), None, prc, None, Some(1), f) :
             prc \in {None, Some("0.5")}, f \in FunderInputs}
    \cup {Obj(Some("cancel"), None, None, None, oid, s, f) :
             oid \in {None, Some("o-1")}, s \in {None, Some(0)}, f \in FunderInputs}
    \cup {[Obj(Some("order"), Some("123"), None, prc, None, None, None)
               EXCEPT !.side = Some(sd)] :
             prc \in {None, Some("0.5")}, sd \in {"buy", "BUY", "sell"}}
    \cup {Obj(Some(c), None, None, None, None, Some(300), None) :
             c \in {"markets", "exit"}}

Lines ==
    {<<>>, <<Ws>>, <<Ws, Ws>>, <<Junk>>, <<Ws, Junk, Ws>>, IoErr}
    \cup {<<o>> : o \in Objects}
    \cup {<<Ws, Plain(c), Ws>> : c \in {"auth", "exit"}}
    \cup {<<Plain("auth"), Plain("auth")>>}

\* str::trim
RECURSIVE TrimStart(_)
TrimStart(s) ==
    IF s # <<>> /\ Head(s) = Ws THEN TrimStart(Tail(s)) ELSE s

RECURSIVE TrimEnd(_)
TrimEnd(s) ==
    IF s # <<>> /\ s[Len(s)] = Ws THEN TrimEnd(SubSeq(s, 1, Len(s) - 1)) ELSE s

\* variant: the line is used as read, without trim()
Trim_none(s) == s

Trim(s) == TrimEnd(TrimStart(s))

\* serde_json::from_str::<Command>: one JSON object, cmd a string,
\* signature_type absent or a u8.
\* variant: the field is declared Option<i8>
U8_signed == -128..127

U8 == 0..255

FromStr(s) ==
    IF /\ Len(s) = 1
       /\ s[1].t = "obj"
       /\ IsSome(s[1].cmd)
       /\ (IsSome(s[1].signature_type) => Unwrap(s[1].signature_type) \in U8)
    THEN Some([cmd |-> Unwrap(s[1].cmd),
               token_id |-> s[1].token_id,
               side |-> s[1].side,
               amount |-> s[1].amount,
               price |-> s[1].price,
               order_id |-> s[1].order_id,
               signature_type |-> s[1].signature_type,
               funder_address |-> s[1].funder_address])
    ELSE None

\* ---------------------------------------------------------------- responses
success_response(data) ==
    [success |-> TRUE, data |-> Some(data), error |-> None, auth_story |-> None]

error_response(error) ==
    [success |-> FALSE, data |-> None, error |-> Some(error), auth_story |-> None]

\* variant: the status is copied into error whatever it is
auth_response_always_error(story, data) ==
    [success |-> story.auth_status = "SUCCESS",
     data |-> data,
     error |-> Some(<<story.auth_status>>),
     auth_story |-> Some(story)]

auth_response(story, data) ==
    LET success == story.auth_status = "SUCCESS" IN
    [success |-> success,
     data |-> data,
     error |-> IF ~success THEN Some(<<story.auth_status>>) ELSE None,
     auth_story |-> Some(story)]

\* format!("<prefix>{}", e)
Fmt(prefix, e) == <<prefix, e>>

\* variant: 1 and 2 follow the order of the probe, not of the SDK
parse_signature_type_swapped(value) ==
    IF value = Some(0) THEN "Eoa"
    ELSE IF value = Some(1) THEN "GnosisSafe"
    ELSE IF value = Some(2) THEN "Proxy"
    ELSE "GnosisSafe"

parse_signature_type(value) ==
    IF value = Some(0) THEN "Eoa"
    ELSE IF value = Some(1) THEN "Proxy"
    ELSE IF value = Some(2) THEN "GnosisSafe"
    ELSE "GnosisSafe"

signature_type_name(st) ==
    CASE st = "Eoa" -> "EOA"
      [] st = "Proxy" -> "Proxy"
      [] st = "GnosisSafe" -> "GnosisSafe"
      [] OTHER -> "Unknown"

\* variant: the SDK's numeric order (0, 1, 2) instead of the probe's
sig_types_numeric == <<"Eoa", "Proxy", "GnosisSafe">>

sig_types == <<"Eoa", "GnosisSafe", "Proxy">>

\* funder.parse::<Address>()
AddressOk(f) == f \in {GoodFunder, EnvFunder}

\* ---------------------------------------------------------------- locals
\* let sig_type = parse_signature_type(cmd.signature_type.or(env_sig_type))
SigType(c) == parse_signature_type(OrElse(c.signature_type, env_sig_type))

\* variant: the startup default wins over the command's value
FunderStr_env_first(c) == OrElse(env_funder, c.funder_address)

\* let funder_str = cmd.funder_address.as_ref().or(env_funder.as_ref())
FunderStr(c) == OrElse(c.funder_address, env_funder)

\* if let Some(funder) = funder_str { funder.parse()? }
FunderParses(c) == IsSome(FunderStr(c)) => AddressOk(Unwrap(FunderStr(c)))

\* AuthStory { .., auth_status: "PENDING", balance_usdc: None, error_details: None }
NewStory(c, st) ==
    [run_id |-> "run",
     signer_address |-> signer_address,
     funder_address |-> FunderStr(c),
     signature_type |-> signature_type_name(st),
     auth_status |-> "PENDING",
     balance_usdc |-> None,
     error_details |-> None]

\* a remote call of the exchange client
Call(op, st, funder, arg) ==
    [op |-> op, sig_type |-> st, funder |-> funder, arg |-> arg]

\* the authenticated client returned by authenticate()
Session(c, st) == [sig_type |-> st, funder |-> FunderStr(c), line |-> nread]

\* opaque values returned by the exchange
Balance == "42.5"
Allowances == "{}"

\* error texts of the collaborators
ErrFunder == "Invalid funder address format"
ErrAddress == "invalid address"
ErrAuth == "authentication rejected"
ErrBalance == "balance request failed"

\* ---------------------------------------------------------------- stdout
\* emit_response: one line on stdout, tagged with the input line it answers
Emit(o, r) == Append(o, [line |-> nread', resp |-> r])

Env == <<env_sig_type, env_funder, signer_address>>

Init ==
    /\ env_sig_type \in {None, Some(1), Some(3)}
    /\ env_funder \in {None, Some(EnvFunder)}
    /\ signer_address = "0xSIGNER"
    /\ nread = 0
    /\ line = <<>>
    /\ cmd = None
    /\ pc = "read"
    /\ sig_idx = 0
    /\ results = <<>>
    /\ client = None
    /\ order = None
    /\ inflight = {}
    /\ calls = <<>>
    /\ out = <<>>
    /\ written = 0

\* variant: handlers are spawned and the loop reads on while they run
CanRead_spawned == pc # "done"

\* the loop reads the next line only at the top of an iteration
CanRead == pc = "read"

\* reader.lines() yields the next line l: the start of every iteration
Take(l) ==
    /\ CanRead
    /\ nread < MaxLines
    /\ nread' = nread + 1
    /\ line' = l
    /\ written' = written + Len(out)
    /\ UNCHANGED Env

\* variant: the authenticated client is kept for the next command
Finish_caching(o, next, pending, log) ==
    /\ out' = o
    /\ calls' = log
    /\ pc' = next
    /\ cmd' = None
    /\ sig_idx' = 0
    /\ results' = <<>>
    /\ client' = client
    /\ order' = None
    /\ inflight' = pending

\* variant: a handler error is propagated out of main with `?`
Finish_propagating(o, next, pending, log) ==
    /\ out' = o
    /\ calls' = log
    /\ pc' = IF o # <<>> /\ ~o[Len(o)].resp.success THEN "done" ELSE next
    /\ cmd' = None
    /\ sig_idx' = 0
    /\ results' = <<>>
    /\ client' = None
    /\ order' = None
    /\ inflight' = pending

\* the iteration ends having written the lines o: its locals are dropped
Finish(o, next, pending, log) ==
    /\ out' = o
    /\ calls' = log
    /\ pc' = next
    /\ cmd' = None
    /\ sig_idx' = 0
    /\ results' = <<>>
    /\ client' = None
    /\ order' = None
    /\ inflight' = pending

\* the handler suspends at the await point p on the remote call k
Await(p, k, log, pending) ==
    /\ pc' = p
    /\ inflight' = pending \cup {k}
    /\ calls' = Append(log, k)

\* the call the handler is suspended on, and what is left when it returns
Awaited == calls[Len(calls)]
Returned == inflight \ {Awaited}

\* a line that is read, is not blank and parses into a Command
Parses(l) == l # IoErr /\ Trim(l) # <<>> /\ FromStr(Trim(l)) # None
Parsed(l) == Unwrap(FromStr(Trim(l)))

\* a step of a running handler leaves the input side alone
Running(p) ==
    /\ pc = p
    /\ UNCHANGED <<Env, nread, line, written>>

\* ---------------------------------------------------------------- dispatch
Commands ==
    {"auth", "probe", "balance", "order", "cancel", "markets", "exit", "quit"}

\* variant: the command word is matched without regard to case
Arm_caseless(word) ==
    CASE word \in {"AUTH", "Auth"} -> "auth"
      [] word \in {"EXIT", "Exit"} -> "exit"
      [] word \in Commands -> word
      [] OTHER -> "_"

\* match cmd.cmd.as_str(): the arm a command word selects, "_" the default
Arm(word) == IF word \in Commands THEN word ELSE "_"

\* ---------------------------------------------------------------- loop
\* Err(e) => continue
ReadError ==
    /\ Take(IoErr)
    /\ Finish(<<>>, "read", inflight, <<>>)

\* line.is_empty() => continue
SkipBlank ==
    \E l \in Lines \ {IoErr} :
        /\ Take(l)
        /\ Trim(l) = <<>>
        /\ Finish(<<>>, "read", inflight, <<>>)

\* serde_json::from_str fails
RejectInvalid ==
    \E l \in Lines \ {IoErr} :
        /\ Take(l)
        /\ Trim(l) # <<>>
        /\ FromStr(Trim(l)) = None
        /\ Finish(Emit(<<>>, error_response(Fmt("Invalid JSON: ", "serde error"))),
                  "read", inflight, <<>>)

\* reader.lines() ends
\* variant: end of input is not noticed and the loop keeps waiting
EndOfInput_blocked ==
    /\ CanRead
    /\ UNCHANGED <<Env, nread, line, cmd, pc, sig_idx, results, client, order,
                   inflight, calls, out, written>>

EndOfInput ==
    /\ CanRead
    /\ pc' = "done"
    /\ UNCHANGED <<Env, nread, line, cmd, sig_idx, results, client, order,
                   inflight, calls, out, written>>

\* ---------------------------------------------------------------- auth
\* variant: the Err arm forgets to set auth_status
AuthFailed_pending(c, e) ==
    auth_response([NewStory(c, SigType(c)) EXCEPT !.error_details = Some(e)],
                  None)

AuthFailed(c, e) ==
    auth_response([NewStory(c, SigType(c)) EXCEPT
                       !.auth_status = "FAILED",
                       !.error_details = Some(e)], None)

CmdAuth ==
    \E l \in Lines :
        /\ Take(l)
        /\ Parses(l)
        /\ Arm(Parsed(l).cmd) = "auth"
        /\ LET c == Parsed(l) IN
           IF FunderParses(c)
           THEN /\ cmd' = Some(c)
                /\ Await("auth_authenticate",
                         Call("authenticate", SigType(c), FunderStr(c), None),
                         <<>>, inflight)
                /\ out' = <<>>
                /\ UNCHANGED <<sig_idx, results, client, order>>
           ELSE Finish(Emit(<<>>, AuthFailed(c, ErrFunder)), "read", inflight, <<>>)

AuthAuthenticated ==
    /\ Running("auth_authenticate")
    /\ LET c == Unwrap(cmd) IN
       \E ok \in BOOLEAN :
         IF ok
         THEN /\ client' = Some(Session(c, SigType(c)))
              /\ Await("auth_balance",
                       Call("balance_allowance", SigType(c), FunderStr(c), None),
                       calls, Returned)
              /\ UNCHANGED <<cmd, sig_idx, results, order, out>>
         ELSE Finish(Emit(out, AuthFailed(c, ErrAuth)), "read", Returned, calls)

AuthBalance ==
    /\ Running("auth_balance")
    /\ LET c == Unwrap(cmd)
           story == [NewStory(c, SigType(c)) EXCEPT !.auth_status = "SUCCESS"]
       IN
       \E ok \in BOOLEAN :
         IF ok
         THEN Finish(Emit(out, auth_response(
                         [story EXCEPT !.balance_usdc = Some(Balance)],
                         Some([authenticated |-> TRUE, balance |-> Balance,
                               allowances |-> Allowances]))),
                     "read", Returned, calls)
         ELSE Finish(Emit(out, auth_response(story,
                         Some([authenticated |-> TRUE,
                               balance_error |-> ErrBalance]))),
                     "read", Returned, calls)

\* ---------------------------------------------------------------- probe
ProbeFailure(st, e) ==
    [signature_type |-> signature_type_name(st), success |-> FALSE, error |-> e]

ProbeSuccess(st) ==
    [signature_type |-> signature_type_name(st), success |-> TRUE,
     balance |-> Balance]

\* the Response of the success branch
ProbeFound(c, st, res) ==
    [success |-> TRUE,
     data |-> Some([working_config |->
                        [signature_type |-> signature_type_name(st),
                         funder_address |-> FunderStr(c)],
                    balance |-> Balance,
                    allowances |-> Allowances,
                    probe_results |-> res]),
     error |-> None,
     auth_story |-> Some([NewStory(c, st) EXCEPT
                              !.auth_status = "SUCCESS",
                              !.balance_usdc = Some(Balance)])]

Recommendation ==
    "Visit polymarket.com, connect your wallet, and make at least one trade. Then retry."

\* the Response written after the for loop
ProbeAllFailed(res) ==
    [success |-> FALSE,
     data |-> Some([probe_results |-> res, recommendation |-> Recommendation]),
     error |-> Some(<<"All authentication methods failed">>),
     auth_story |-> None]

\* variant: the funder address is parsed once, before the loop
LocalFailures_once(i) == <<ProbeFailure(sig_types[i], ErrFunder)>>

\* attempts i.. of a probe whose funder address does not parse: each fails
\* before authenticate() is reached
LocalFailures(i) ==
    [k \in 1..(Len(sig_types) - i + 1) |->
        ProbeFailure(sig_types[i + k - 1], ErrFunder)]

\* what the success branch does after emit_response: `continue`
AfterFound(i) == i + 1

\* the for loop over sig_types from its i-th element on, with the results
\* vector res and the stdout lines o of this iteration
ProbeFrom(c, i, res, o, log, pending) ==
    IF i > Len(sig_types)
    THEN Finish(Emit(o, ProbeAllFailed(res)), "read", pending, log)
    ELSE IF FunderParses(c)
    THEN /\ cmd' = Some(c)
         /\ sig_idx' = i
         /\ results' = res
         /\ out' = o
         /\ client' = None
         /\ Await("probe_authenticate",
                  Call("authenticate", sig_types[i], FunderStr(c), None),
                  log, pending)
         /\ UNCHANGED order
    ELSE Finish(Emit(o, ProbeAllFailed(res \o LocalFailures(i))),
                "read", pending, log)

CmdProbe ==
    \E l \in Lines :
        /\ Take(l)
        /\ Parses(l)
        /\ Arm(Parsed(l).cmd) = "probe"
        /\ ProbeFrom(Parsed(l), 1, <<>>, <<>>, <<>>, inflight)

ProbeAuthenticated ==
    /\ Running("probe_authenticate")
    /\ LET c == Unwrap(cmd)
           st == sig_types[sig_idx]
       IN
       \E ok \in BOOLEAN :
         IF ok
         THEN /\ client' = Some(Session(c, st))
              /\ Await("probe_balance",
                       Call("balance_allowance", st, FunderStr(c), None),
                       calls, Returned)
              /\ UNCHANGED <<cmd, sig_idx, results, order, out>>
         ELSE ProbeFrom(c, sig_idx + 1,
                        Append(results, ProbeFailure(st, ErrAuth)),
                        out, calls, Returned)

ProbeBalance ==
    /\ Running("probe_balance")
    /\ LET c == Unwrap(cmd)
           st == sig_types[sig_idx]
       IN
       \E ok \in BOOLEAN :
         IF ok
         THEN LET res == Append(results, ProbeSuccess(st)) IN
              ProbeFrom(c, AfterFound(sig_idx), res,
                        Emit(out, ProbeFound(c, st, res)), calls, Returned)
         ELSE ProbeFrom(c, sig_idx + 1,
                        Append(results, ProbeFailure(st, ErrBalance)),
                        out, calls, Returned)

\* ---------------------------------------------------------------- balance
CmdBalance ==
    \E l \in Lines :
        /\ Take(l)
        /\ Parses(l)
        /\ Arm(Parsed(l).cmd) = "balance"
        /\ LET c == Parsed(l) IN
           IF FunderParses(c)
           THEN /\ cmd' = Some(c)
                /\ Await("balance_authenticate",
                         Call("authenticate", SigType(c), FunderStr(c), None),
                         <<>>, inflight)
                /\ out' = <<>>
                /\ UNCHANGED <<sig_idx, results, client, order>>
           ELSE Finish(Emit(<<>>, error_response(
                           Fmt("Failed to get balance: ", ErrAddress))),
                       "read", inflight, <<>>)

BalanceAuthenticated ==
    /\ Running("balance_authenticate")
    /\ LET c == Unwrap(cmd) IN
       \E ok \in BOOLEAN :
         IF ok
         THEN /\ client' = Some(Session(c, SigType(c)))
              /\ Await("balance_balance",
                       Call("balance_allowance", SigType(c), FunderStr(c), None),
                       calls, Returned)
              /\ UNCHANGED <<cmd, sig_idx, results, order, out>>
         ELSE Finish(Emit(out, error_response(
                         Fmt("Failed to get balance: ", ErrAuth))),
                     "read", Returned, calls)

\* variant: the balance arm answers through auth_response, as the auth arm
BalanceBalance_as_auth ==
    /\ Running("balance_balance")
    /\ LET c == Unwrap(cmd)
           story == [NewStory(c, SigType(c)) EXCEPT !.auth_status = "SUCCESS"]
       IN
       \E ok \in BOOLEAN :
         IF ok
         THEN Finish(Emit(out, auth_response(
                         [story EXCEPT !.balance_usdc = Some(Balance)],
                         Some([balance |-> Balance, allowances |-> Allowances]))),
                     "read", Returned, calls)
         ELSE Finish(Emit(out, error_response(
                         Fmt("Failed to get balance: ", ErrBalance))),
                     "read", Returned, calls)

BalanceBalance ==
    /\ Running("balance_balance")
    /\ \E ok \in BOOLEAN :
         IF ok
         THEN Finish(Emit(out, success_response(
                         [balance |-> Balance, allowances |-> Allowances])),
                     "read", Returned, calls)
         ELSE Finish(Emit(out, error_response(
                         Fmt("Failed to get balance: ", ErrBalance))),
                     "read", Returned, calls)

\* ---------------------------------------------------------------- order
\* Decimal::from_str(&format!("{}", x))
DecimalOk(x) == x # HugeNumber

\* variant: token_id is passed on as text, never parsed
U256Ok_any(tok) == TRUE

\* token_id.parse::<U256>()
U256Ok(tok) == tok \in {"123"}

\* cmd.amount.unwrap_or(10.0)
AmountOf(c) == IF IsSome(c.amount) THEN Unwrap(c.amount) ELSE "10"

\* side_str.eq_ignore_ascii_case("buy"), side_str defaulting to "buy"
SideOf(c) ==
    IF IsNone(c.side) \/ Unwrap(c.side) \in {"buy", "BUY", "Buy"}
    THEN "Buy" ELSE "Sell"

\* if let Some(limit_price) = price
IsLimit(c) == IsSome(c.price)

OrderFailed(e) == error_response(Fmt("Order failed: ", e))

\* the descriptor handed to build()
LimitOrder(c) ==
    [kind |-> "limit", token_id |-> Unwrap(c.token_id), size |-> AmountOf(c),
     price |-> c.price, side |-> SideOf(c), order_type |-> None]

MarketOrder(c) ==
    [kind |-> "market", token_id |-> Unwrap(c.token_id), size |-> AmountOf(c),
     price |-> None, side |-> SideOf(c), order_type |-> Some("FOK")]

\* variant: token_id is not checked before the session is built
MissingTokenId_unchecked(c) == FALSE

\* match cmd.token_id { None => .. }
MissingTokenId(c) == IsNone(c.token_id)

CmdOrder ==
    \E l \in Lines :
        /\ Take(l)
        /\ Parses(l)
        /\ Arm(Parsed(l).cmd) = "order"
        /\ LET c == Parsed(l) IN
           IF MissingTokenId(c)
           THEN Finish(Emit(<<>>, error_response(<<"Missing token_id">>)),
                       "read", inflight, <<>>)
           ELSE IF FunderParses(c)
           THEN /\ cmd' = Some(c)
                /\ Await("order_authenticate",
                         Call("authenticate", SigType(c), FunderStr(c), None),
                         <<>>, inflight)
                /\ out' = <<>>
                /\ UNCHANGED <<sig_idx, results, client, order>>
           ELSE Finish(Emit(<<>>, OrderFailed(ErrAddress)),
                       "read", inflight, <<>>)

\* from authenticate() to the build() of the chosen branch
OrderAuthenticated ==
    /\ Running("order_authenticate")
    /\ LET c == Unwrap(cmd)
           fail(e) == Finish(Emit(out, OrderFailed(e)), "read", Returned, calls)
           build(d) ==
               /\ client' = Some(Session(c, SigType(c)))
               /\ order' = Some(d)
               /\ Await("order_build",
                        Call("build", SigType(c), FunderStr(c), Some(d)),
                        calls, Returned)
               /\ UNCHANGED <<cmd, sig_idx, results, out>>
       IN
       \E ok \in BOOLEAN, usdc_ok \in BOOLEAN :
         IF ~ok THEN fail(ErrAuth)
         ELSE IF ~DecimalOk(AmountOf(c)) THEN fail("Invalid amount")
         ELSE IF IsLimit(c)
         THEN IF ~DecimalOk(Unwrap(c.price)) THEN fail("Invalid price")
              ELSE IF ~U256Ok(Unwrap(c.token_id))
              THEN fail("Invalid token_id - must be a valid U256")
              ELSE build(LimitOrder(c))
         ELSE IF ~usdc_ok THEN fail("invalid usdc amount")
              ELSE IF ~U256Ok(Unwrap(c.token_id))
              THEN fail("Invalid token_id - must be a valid U256")
              ELSE build(MarketOrder(c))

OrderBuilt ==
    /\ Running("order_build")
    /\ LET c == Unwrap(cmd) IN
       \E ok \in BOOLEAN :
         IF ok
         THEN /\ Await("order_sign",
                       Call("sign", SigType(c), FunderStr(c), order),
                       calls, Returned)
              /\ UNCHANGED <<cmd, sig_idx, results, client, order, out>>
         ELSE Finish(Emit(out, OrderFailed("build failed")),
                     "read", Returned, calls)

OrderSigned ==
    /\ Running("order_sign")
    /\ LET c == Unwrap(cmd) IN
       \E ok \in BOOLEAN :
         IF ok
         THEN /\ Await("order_post",
                       Call("post_order", SigType(c), FunderStr(c), order),
                       calls, Returned)
              /\ UNCHANGED <<cmd, sig_idx, results, client, order, out>>
         ELSE Finish(Emit(out, OrderFailed("sign failed")),
                     "read", Returned, calls)

\* variant: the market branch keeps the payload of the limit branch
OrderPayload_copied(c) ==
    [order_type |-> "limit", response |-> "PostOrderResponse"]

\* the json! payload of the branch that ran
OrderPayload(c) ==
    [order_type |-> IF IsLimit(c) THEN "limit" ELSE "market",
     response |-> "PostOrderResponse"]

OrderPosted ==
    /\ Running("order_post")
    /\ \E ok \in BOOLEAN :
         IF ok
         THEN Finish(Emit(out, success_response(OrderPayload(Unwrap(cmd)))),
                     "read", Returned, calls)
         ELSE Finish(Emit(out, OrderFailed("post failed")),
                     "read", Returned, calls)

\* ---------------------------------------------------------------- cancel
\* variant: order_id is not checked before the session is built
MissingOrderId_unchecked(c) == FALSE

\* match cmd.order_id { None => .. }
MissingOrderId(c) == IsNone(c.order_id)

CmdCancel ==
    \E l \in Lines :
        /\ Take(l)
        /\ Parses(l)
        /\ Arm(Parsed(l).cmd) = "cancel"
        /\ LET c == Parsed(l) IN
           IF MissingOrderId(c)
           THEN Finish(Emit(<<>>, error_response(<<"Missing order_id">>)),
                       "read", inflight, <<>>)
           ELSE IF FunderParses(c)
           THEN /\ cmd' = Some(c)
                /\ Await("cancel_authenticate",
                         Call("authenticate", SigType(c), FunderStr(c), None),
                         <<>>, inflight)
                /\ out' = <<>>
                /\ UNCHANGED <<sig_idx, results, client, order>>
           ELSE Finish(Emit(<<>>, error_response(
                           Fmt("Cancel failed: ", ErrAddress))),
                       "read", inflight, <<>>)

CancelAuthenticated ==
    /\ Running("cancel_authenticate")
    /\ LET c == Unwrap(cmd) IN
       \E ok \in BOOLEAN :
         IF ok
         THEN /\ client' = Some(Session(c, SigType(c)))
              /\ Await("cancel_cancel",
                       Call("cancel_order", SigType(c), FunderStr(c), c.order_id),
                       calls, Returned)
              /\ UNCHANGED <<cmd, sig_idx, results, order, out>>
         ELSE Finish(Emit(out, error_response(Fmt("Cancel failed: ", ErrAuth))),
                     "read", Returned, calls)

CancelCancelled ==
    /\ Running("cancel_cancel")
    /\ \E ok \in BOOLEAN :
         IF ok
         THEN Finish(Emit(out, success_response(
                         [cancelled |-> TRUE,
                          order_id |-> Unwrap(Unwrap(cmd).order_id)])),
                     "read", Returned, calls)
         ELSE Finish(Emit(out, error_response(
                         Fmt("Cancel failed: ", "cancel rejected"))),
                     "read", Returned, calls)

\* ---------------------------------------------------------------- markets
CmdMarkets ==
    \E l \in Lines :
        /\ Take(l)
        /\ Parses(l)
        /\ Arm(Parsed(l).cmd) = "markets"
        /\ cmd' = Some(Parsed(l))
        /\ Await("markets_markets", Call("markets", "none", None, None),
                 <<>>, inflight)
        /\ out' = <<>>
        /\ UNCHANGED <<sig_idx, results, client, order>>

MarketsMessage ==
    "Markets retrieved successfully. Use Polymarket API directly for full market data."

MarketsListed ==
    /\ Running("markets_markets")
    /\ \E ok \in BOOLEAN, count \in 0..1 :
         IF ok
         THEN Finish(Emit(out, success_response(
                         [count |-> count, message |-> MarketsMessage])),
                     "read", Returned, calls)
         ELSE Finish(Emit(out, error_response(
                         Fmt("Failed to get markets: ", "markets failed"))),
                     "read", Returned, calls)

\* ---------------------------------------------------------------- exit
\* variant: the exit arm has no `break`
AfterExit_continue == "read"

\* where the loop goes after the exit arm: `break`
AfterExit == "done"

\* "exit" | "quit"
CmdExit ==
    \E l \in Lines :
        /\ Take(l)
        /\ Parses(l)
        /\ Arm(Parsed(l).cmd) \in {"exit", "quit"}
        /\ Finish(Emit(<<>>, success_response([status |-> "exiting"])),
                  AfterExit, inflight, <<>>)

\* the default arm
CmdUnknown ==
    \E l \in Lines :
        /\ Take(l)
        /\ Parses(l)
        /\ Arm(Parsed(l).cmd) = "_"
        /\ Finish(Emit(<<>>, error_response(
                      Fmt("Unknown command: ", Parsed(l).cmd))),
                  "read", inflight, <<>>)

Next ==
    \/ ReadError
    \/ SkipBlank
    \/ RejectInvalid
    \/ EndOfInput
    \/ CmdAuth
    \/ AuthAuthenticated
    \/ AuthBalance
    \/ CmdProbe
    \/ ProbeAuthenticated
    \/ ProbeBalance
    \/ CmdBalance
    \/ BalanceAuthenticated
    \/ BalanceBalance
    \/ CmdOrder
    \/ OrderAuthenticated
    \/ OrderBuilt
    \/ OrderSigned
    \/ OrderPosted
    \/ CmdCancel
    \/ CancelAuthenticated
    \/ CancelCancelled
    \/ CmdMarkets
    \/ MarketsListed
    \/ CmdExit
    \/ CmdUnknown

Spec == Init /\ [][Next]_vars

\* the runtime drives main to completion (#[tokio::main] blocks on it) and
\* every remote call returns, so a step that can be taken is taken
FairSpec == Spec /\ WF_vars(Next)

\* ---------------------------------------------------------------- properties
\* the line of the current iteration parsed into the command named c
LineIs(c) == nread > 0 /\ Parses(line) /\ Parsed(line).cmd = c

\* the iteration of the current line is over
AtRest == pc \in {"read", "done"}

Last(s) == s[Len(s)]

AuthCalls == SelectSeq(calls, LAMBDA k : k.op = "authenticate")

ModeAt(i) == <<"Eoa", "GnosisSafe", "Proxy">>[i]

\* C1: every line that is read and is not blank gets exactly one response
\* line: never more than one, and one once its iteration is over.
C1_ExactlyOneResponse ==
    /\ Len(out) <= 1
    /\ (AtRest /\ nread > 0 /\ line # IoErr /\ Trim(line) # <<>>) => Len(out) = 1

\* C2: while a probe is still issuing calls, no earlier mode of that probe
\* has succeeded.
C2_ProbeStopsAtFirstSuccess ==
    pc \in {"probe_authenticate", "probe_balance"} =>
        \A j \in 1..Len(results) : ~results[j].success

\* C3: the calls of a probe are those of at most three attempts, made in the
\* order Eoa, GnosisSafe, Proxy, no mode twice, one call in flight at a time
\* and the balance query of a mode right after its authentication.
C3_ProbeOrder ==
    LineIs("probe") =>
        /\ Len(AuthCalls) <= 3
        /\ \A i \in 1..Len(AuthCalls) : AuthCalls[i].sig_type = ModeAt(i)
        /\ \A i \in 1..Len(calls) :
              \/ calls[i].op = "authenticate"
              \/ /\ calls[i].op = "balance_allowance"
                 /\ i > 1
                 /\ calls[i - 1].op = "authenticate"
                 /\ calls[i - 1].sig_type = calls[i].sig_type
        /\ inflight \subseteq (IF calls = <<>> THEN {} ELSE {Last(calls)})

C3_Witness ==
    /\ LineIs("probe")
    /\ pc = "read"
    /\ Len(AuthCalls) = 3
    /\ Len(calls) = 5

\* C4: in every response written, success is true exactly when error is
\* absent.
C4_SuccessIffNoError ==
    \A i \in 1..Len(out) : out[i].resp.success <=> out[i].resp.error = <<>>

C4_Witness ==
    /\ LineIs("auth")
    /\ Len(out) = 1
    /\ ~out[1].resp.success
    /\ out[1].resp.error = <<<<"FAILED">>>>

IsExitLine == LineIs("exit") \/ LineIs("quit")

\* C5: once an exit or quit line is read, the loop is over with exactly one
\* response, the success {"status":"exiting"}, no remote call, and nothing
\* changes afterwards.
C5_ExitTerminates ==
    /\ [](IsExitLine =>
            /\ pc = "done"
            /\ out = <<[line |-> nread,
                        resp |-> [success |-> TRUE,
                                  data |-> <<[status |-> "exiting"]>>,
                                  error |-> <<>>, auth_story |-> <<>>]]>>
            /\ calls = <<>>
            /\ inflight = {})
    /\ [][pc = "done" => UNCHANGED vars]_vars

C5_Witness == LineIs("quit") /\ nread = 1 /\ pc = "done" /\ Len(out) = 1

\* C6: the loop ends only at an exit/quit line or at the end of the input;
\* an iteration that wrote an error response is followed by the next read.
C6_ErrorsDoNotStopLoop ==
    /\ [][(pc # "done" /\ pc' = "done") =>
            \/ (nread' = nread + 1 /\ Parses(line') /\
                Parsed(line').cmd \in {"exit", "quit"})
            \/ (pc = "read" /\ nread' = nread /\ out' = out)]_vars
    /\ []((nread > 0 /\ ~IsExitLine /\ Len(out) > 0 /\ ~Last(out).resp.success
           /\ inflight = {} /\ pc # "done") => pc = "read")

C6_Witness ==
    /\ nread = 2
    /\ written = 1
    /\ LineIs("markets")
    /\ pc = "markets_markets"

\* C7: at most one remote call is in flight, none while the loop is at a
\* read, the call in flight is the last one issued for the line being
\* handled, and every response is written while its own line is the current
\* one (so before the next line is read).
C7_Sequential ==
    /\ Cardinality(inflight) <= 1
    /\ AtRest => inflight = {}
    /\ ~AtRest => (calls # <<>> /\ inflight = {Last(calls)} /\ cmd # <<>>)
    /\ \A i \in 1..Len(out) : out[i].line = nread
    /\ (AtRest /\ nread > 0 /\ Parses(line)) => Len(out) >= 1

C7_Witness ==
    /\ nread = 2
    /\ LineIs("probe")
    /\ pc = "probe_balance"
    /\ sig_idx = 2
    /\ written = 1

\* C8: an order line without token_id is answered by the error
\* "Missing token_id" and issues no remote call.
C8_MissingTokenId ==
    (LineIs("order") /\ Parsed(line).token_id = <<>>) =>
        /\ out = <<[line |-> nread,
                    resp |-> [success |-> FALSE, data |-> <<>>,
                              error |-> <<<<"Missing token_id">>>>,
                              auth_story |-> <<>>]]>>
        /\ calls = <<>>
        /\ inflight = {}
        /\ AtRest

C8_Witness ==
    /\ LineIs("order")
    /\ Parsed(line).token_id = <<>>
    /\ Parsed(line).price # <<>>
    /\ Len(out) = 1

\* C9: a cancel line without order_id is answered by the error
\* "Missing order_id" and issues no remote call.
C9_MissingOrderId ==
    (LineIs("cancel") /\ Parsed(line).order_id = <<>>) =>
        /\ out = <<[line |-> nread,
                    resp |-> [success |-> FALSE, data |-> <<>>,
                              error |-> <<<<"Missing order_id">>>>,
                              auth_story |-> <<>>]]>>
        /\ calls = <<>>
        /\ inflight = {}
        /\ AtRest

C9_Witness ==
    /\ LineIs("cancel")
    /\ Parsed(line).order_id = <<>>
    /\ Parsed(line).funder_address # <<>>
    /\ Len(out) = 1

\* C10: a successful order answers order_type "limit" exactly when the line
\* carried a price and "market" exactly when it did not; the descriptor
\* built is a limit order with that price in the first case and a
\* fill-or-kill market order without price in the second.
C10_OrderTypeFollowsPrice ==
    LineIs("order") =>
        /\ \A i \in 1..Len(out) :
              out[i].resp.success =>
                  /\ out[i].resp.data[1].order_type \in {"limit", "market"}
                  /\ out[i].resp.data[1].order_type = "limit"
                        <=> Parsed(line).price # <<>>
        /\ order # <<>> =>
              /\ order[1].kind \in {"limit", "market"}
              /\ order[1].kind = "limit" <=> Parsed(line).price # <<>>
              /\ order[1].kind = "limit" =>
                    (order[1].price = Parsed(line).price /\ order[1].price # <<>>)
              /\ order[1].kind = "market" =>
                    (order[1].price = <<>> /\ order[1].order_type = <<"FOK">>)

C10_Witness ==
    /\ LineIs("order")
    /\ Parsed(line).price = <<>>
    /\ Len(out) = 1
    /\ out[1].resp.success
    /\ out[1].resp.data[1].order_type = "market"

OrderPipeline == <<"authenticate", "build", "sign", "post_order">>

\* C11: an order line with a token_id issues its calls in the order
\* authenticate, build, sign, post_order, each after the one before it
\* returned, so at most one submission; build (and so submission) is reached
\* only with an amount, price and token_id that parse; the one response is a
\* success only after the submission, and otherwise an error that begins
\* with "Order failed: ".
C11_OrderPipeline ==
    (LineIs("order") /\ Parsed(line).token_id # <<>>) =>
        /\ Len(calls) <= 4
        /\ \A i \in 1..Len(calls) : calls[i].op = OrderPipeline[i]
        /\ Len(calls) >= 2 =>
              /\ Parsed(line).amount # <<HugeNumber>>
              /\ Parsed(line).price # <<HugeNumber>>
              /\ Parsed(line).token_id = <<"123">>
        /\ AtRest =>
              /\ Len(out) = 1
              /\ out[1].resp.success => Len(calls) = 4
              /\ ~out[1].resp.success =>
                    /\ Len(out[1].resp.error[1]) = 2
                    /\ out[1].resp.error[1][1] = "Order failed: "
        /\ ~AtRest => out = <<>>

C11_Witness ==
    /\ LineIs("order")
    /\ Parsed(line).price # <<>>
    /\ pc = "read"
    /\ Len(calls) = 3
    /\ Len(out) = 1
    /\ out[1].resp.error = <<<<"Order failed: ", "sign failed">>>>

Modes == {"Eoa", "Proxy", "GnosisSafe"}

\* the signature_type in force for the current line: the command's, else
\* the environment's
InForce ==
    IF Parsed(line).signature_type # <<>>
    THEN Parsed(line).signature_type ELSE env_sig_type

\* C12: the resolver gives a mode for every Option<u8>, and the session of an
\* auth, balance, order or cancel line is requested with the mode of the
\* command's signature_type when it has one, else of the environment's, else
\* GnosisSafe: 0 is Eoa, 1 is Proxy, 2 and everything else is GnosisSafe.
C12_Resolver ==
    /\ \A v \in {<<>>} \cup {<<n>> : n \in 0..255} :
          parse_signature_type(v) \in Modes
    /\ ((LineIs("auth") \/ LineIs("balance") \/ LineIs("order") \/ LineIs("cancel"))
        /\ calls # <<>>) =>
          /\ calls[1].op = "authenticate"
          /\ InForce = <<0>> => calls[1].sig_type = "Eoa"
          /\ InForce = <<1>> => calls[1].sig_type = "Proxy"
          /\ InForce = <<2>> => calls[1].sig_type = "GnosisSafe"
          /\ InForce \notin {<<0>>, <<1>>, <<2>>} => calls[1].sig_type = "GnosisSafe"

C12_Witness ==
    /\ LineIs("balance")
    /\ Parsed(line).signature_type = <<>>
    /\ env_sig_type = <<1>>
    /\ calls # <<>>
    /\ calls[1].sig_type = "Proxy"

UnknownCmd(l) ==
    /\ Parses(l)
    /\ Parsed(l).cmd \notin {"auth", "probe", "balance", "order", "cancel",
                             "markets", "exit", "quit"}

\* C13: a line whose cmd is not one of the eight command words, compared
\* exactly, is answered by the one error "Unknown command: <cmd>", issues no
\* remote call, and leaves the loop at its next read.
C13_UnknownCommand ==
    /\ []((nread > 0 /\ UnknownCmd(line)) =>
            /\ out = <<[line |-> nread,
                        resp |-> [success |-> FALSE, data |-> <<>>,
                                  error |-> <<<<"Unknown command: ",
                                                Parsed(line).cmd>>>>,
                                  auth_story |-> <<>>]]>>
            /\ calls = <<>>
            /\ inflight = {}
            /\ AtRest)
    /\ [][(nread' = nread + 1 /\ UnknownCmd(line')) => pc' = "read"]_vars

C13_Witness ==
    /\ LineIs("Exit")
    /\ pc = "read"
    /\ nread = 1
    /\ Len(out) = 1

Blank(l) == l # IoErr /\ \A i \in 1..Len(l) : l[i] = [t |-> "ws"]

\* C14: a line that is empty or only whitespace gets no response and no
\* remote call, and the loop is at its next read.
C14_BlankLine ==
    /\ []((nread > 0 /\ Blank(line)) =>
            /\ out = <<>>
            /\ calls = <<>>
            /\ inflight = {}
            /\ AtRest)
    /\ [][(nread' = nread + 1 /\ Blank(line')) =>
            (pc' = "read" /\ written' = written + Len(out))]_vars

C14_Witness ==
    /\ nread = 2
    /\ line = <<[t |-> "ws"], [t |-> "ws"]>>
    /\ pc = "read"
    /\ written = 1
    /\ out = <<>>

ProbeResults(r) == r.data[1].probe_results

AllFailedIn(r) == \A j \in 1..Len(ProbeResults(r)) : ~ProbeResults(r)[j].success

\* C15: a probe whose final results list holds no success has written one
\* response only: success false, the error "All authentication methods
\* failed", three failed results named EOA, GnosisSafe, Proxy in that order,
\* the recommendation text, and no AuthStory.
C15_ProbeAllFailed ==
    (LineIs("probe") /\ AtRest /\ out # <<>> /\ AllFailedIn(Last(out).resp)) =>
        /\ Len(out) = 1
        /\ out[1].resp.success = FALSE
        /\ out[1].resp.error = <<<<"All authentication methods failed">>>>
        /\ out[1].resp.auth_story = <<>>
        /\ DOMAIN out[1].resp.data[1] = {"probe_results", "recommendation"}
        /\ out[1].resp.data[1].recommendation =
              "Visit polymarket.com, connect your wallet, and make at least one trade. Then retry."
        /\ Len(ProbeResults(out[1].resp)) = 3
        /\ \A j \in 1..3 :
              /\ ProbeResults(out[1].resp)[j].signature_type =
                    <<"EOA", "GnosisSafe", "Proxy">>[j]
              /\ ProbeResults(out[1].resp)[j].success = FALSE

C15_Witness ==
    /\ LineIs("probe")
    /\ pc = "read"
    /\ Len(out) = 1
    /\ Len(calls) = 4
    /\ AllFailedIn(out[1].resp)

\* C16: a response that carries an AuthStory answers an auth or a probe
\* line.
C16_StoryOnlyForAuth ==
    \A i \in 1..Len(out) :
        out[i].resp.auth_story # <<>> => (LineIs("auth") \/ LineIs("probe"))

C16_Witness ==
    /\ LineIs("probe")
    /\ Len(out) = 1
    /\ out[1].resp.auth_story # <<>>
    /\ out[1].resp.auth_story[1].signature_type = "GnosisSafe"

\* C17: in every success response of a probe the results list ends with the
\* working mode, marked successful, and holds only failures before it.
C17_ProbeResultsTrail ==
    LineIs("probe") =>
        \A i \in 1..Len(out) :
            out[i].resp.success =>
                LET res == ProbeResults(out[i].resp) IN
                /\ res # <<>>
                /\ Last(res).success
                /\ Last(res).signature_type =
                      out[i].resp.data[1].working_config.signature_type
                /\ \A j \in 1..(Len(res) - 1) : ~res[j].success
                /\ \A j \in 1..Len(res) :
                      res[j].signature_type = <<"EOA", "GnosisSafe", "Proxy">>[j]

\* C18: a probe writes a failure response only when none of its attempts
\* succeeded, and then it writes one.
C18_FailureOnlyIfAllFailed ==
    LineIs("probe") =>
        /\ \A i \in 1..Len(out) :
              ~out[i].resp.success =>
                  (AllFailedIn(out[i].resp) /\ \A k \in 1..Len(out) : ~out[k].resp.success)
        /\ AtRest => out # <<>>

\* C19: the one response of an auth line always carries a story that is
\* SUCCESS or FAILED, never PENDING, and success is true exactly for
\* SUCCESS.  It is a success exactly when authenticate() returned a client
\* (the balance query was issued): then the payload has either the balance,
\* also in the story, or balance_error with no balance in the story.  It is
\* a failure when the session build failed: the story has error details,
\* there is no payload and no balance query was issued.
C19_AuthResponse ==
    LineIs("auth") =>
        /\ Len(out) <= 1
        /\ AtRest => Len(out) = 1
        /\ (AtRest /\ Len(calls) = 2) => out[1].resp.success
        /\ \A i \in 1..Len(out) :
              LET r == out[i].resp IN
              /\ r.auth_story # <<>>
              /\ r.auth_story[1].auth_status \in {"SUCCESS", "FAILED"}
              /\ r.success <=> r.auth_story[1].auth_status = "SUCCESS"
              /\ r.success =>
                    /\ Len(calls) = 2
                    /\ calls[2].op = "balance_allowance"
                    /\ r.error = <<>>
                    /\ r.auth_story[1].error_details = <<>>
                    /\ r.data # <<>>
                    /\ r.data[1].authenticated = TRUE
                    /\ "balance_error" \in DOMAIN r.data[1]
                          <=> r.auth_story[1].balance_usdc = <<>>
                    /\ "balance" \in DOMAIN r.data[1]
                          <=> r.auth_story[1].balance_usdc # <<>>
              /\ ~r.success =>
                    /\ r.error = <<<<"FAILED">>>>
                    /\ r.auth_story[1].error_details # <<>>
                    /\ r.auth_story[1].balance_usdc = <<>>
                    /\ r.data = <<>>
                    /\ \A k \in 1..Len(calls) : calls[k].op = "authenticate"

C19_Witness ==
    /\ LineIs("auth")
    /\ Len(out) = 1
    /\ out[1].resp.success
    /\ "balance_error" \in DOMAIN out[1].resp.data[1]
    /\ out[1].resp.auth_story[1].balance_usdc = <<>>

NeedsSession == {"balance_allowance", "build", "sign", "post_order", "cancel_order"}

\* C20: an auth, balance, order or cancel line issues at most one
\* authenticate call, a probe at most one per mode, any other line none; a
\* call that needs a session is made with the client that this line's own
\* authenticate returned, and no client is left once the iteration is over.
C20_FreshSessions ==
    /\ (LineIs("auth") \/ LineIs("balance") \/ LineIs("order") \/ LineIs("cancel"))
          => Len(AuthCalls) <= 1
    /\ LineIs("probe") =>
          /\ Len(AuthCalls) <= 3
          /\ \A i, j \in 1..Len(AuthCalls) :
                i # j => AuthCalls[i].sig_type # AuthCalls[j].sig_type
    /\ ~(LineIs("auth") \/ LineIs("balance") \/ LineIs("order")
         \/ LineIs("cancel") \/ LineIs("probe")) => AuthCalls = <<>>
    /\ \A i \in 1..Len(calls) :
          calls[i].op \in NeedsSession =>
              /\ calls[1].op = "authenticate"
              /\ \E k \in 1..(i - 1) :
                    /\ calls[k].op = "authenticate"
                    /\ calls[k].sig_type = calls[i].sig_type
                    /\ calls[k].funder = calls[i].funder
    /\ \A k \in inflight :
          k.op \in NeedsSession =>
              /\ client # <<>>
              /\ client[1].line = nread
              /\ client[1].sig_type = k.sig_type
              /\ client[1].funder = k.funder
    /\ client # <<>> => client[1].line = nread
    /\ AtRest => client = <<>>

C20_Witness ==
    /\ nread = 2
    /\ written = 1
    /\ LineIs("cancel")
    /\ pc = "cancel_cancel"
    /\ client # <<>>
    /\ client[1].line = 2

\* the current line is one JSON object with a cmd word
IsCommandLine ==
    /\ nread > 0
    /\ line # IoErr
    /\ Len(Trim(line)) = 1
    /\ Trim(line)[1].t = "obj"
    /\ Trim(line)[1].cmd # <<>>

RawSig == Trim(line)[1].signature_type

RawCmd == Trim(line)[1].cmd[1]

InvalidJson ==
    [success |-> FALSE, data |-> <<>>,
     error |-> <<<<"Invalid JSON: ", "serde error">>>>, auth_story |-> <<>>]

\* the line was dispatched, and its session, if it asks for one, is
\* requested with GnosisSafe
HandledWithGnosisSafe ==
    /\ \A i \in 1..Len(out) : out[i].resp # InvalidJson
    /\ AtRest => out # <<>>
    /\ (RawCmd \in {"auth", "balance", "order", "cancel"} /\ calls # <<>>) =>
          (calls[1].op = "authenticate" /\ calls[1].sig_type = "GnosisSafe")

\* C21 as stated: with no environment default, a command whose
\* signature_type is absent or any integer other than 0, 1, 2, negative and
\* out-of-range ones included, is dispatched and handled with GnosisSafe.
C21_AnyIntegerFallsBack ==
    (IsCommandLine /\ env_sig_type = <<>> /\ RawSig \notin {<<0>>, <<1>>, <<2>>})
        => HandledWithGnosisSafe

\* C21 as amended: with no environment default, a command whose
\* signature_type is absent or an integer from 3 to 255 is dispatched and
\* handled with GnosisSafe; one whose signature_type is negative or above
\* 255 is not dispatched: its line is answered by the "Invalid JSON" error
\* and no remote call is issued.
C21_U8FallsBack ==
    (IsCommandLine /\ env_sig_type = <<>>) =>
        /\ (RawSig = <<>> \/ (RawSig # <<>> /\ RawSig[1] \in 3..255))
              => HandledWithGnosisSafe
        /\ (RawSig # <<>> /\ (RawSig[1] < 0 \/ RawSig[1] > 255)) =>
              /\ out = <<[line |-> nread, resp |-> InvalidJson]>>
              /\ calls = <<>>
              /\ AtRest

C21_Witness ==
    /\ IsCommandLine
    /\ env_sig_type = <<>>
    /\ RawCmd = "auth"
    /\ RawSig = <<255>>
    /\ calls # <<>>
    /\ calls[1].sig_type = "GnosisSafe"

\* the funder address in force for the current line: the command's, else
\* the startup default, else none
FunderInForce ==
    IF Parsed(line).funder_address # <<>>
    THEN Parsed(line).funder_address ELSE env_funder

\* C22: every session of the current line is requested, held and reported
\* with the line's own funder_address when it has one, else with the startup
\* default, else with none, whatever the lines before it carried; no step
\* changes the startup defaults or the signer.
C22_FunderPrecedence ==
    /\ []((nread > 0 /\ Parses(line)) =>
            /\ \A i \in 1..Len(calls) :
                  calls[i].op # "markets" => calls[i].funder = FunderInForce
            /\ client # <<>> => client[1].funder = FunderInForce
            /\ \A i \in 1..Len(out) :
                  /\ out[i].resp.auth_story # <<>> =>
                        out[i].resp.auth_story[1].funder_address = FunderInForce
                  /\ (LineIs("probe") /\ out[i].resp.success) =>
                        out[i].resp.data[1].working_config.funder_address
                            = FunderInForce)
    /\ [][/\ env_sig_type' = env_sig_type
          /\ env_funder' = env_funder
          /\ signer_address' = signer_address]_vars

C22_Witness ==
    /\ nread = 2
    /\ written = 1
    /\ LineIs("order")
    /\ env_funder = <<"0xE000">>
    /\ Parsed(line).funder_address = <<"0xF00D">>
    /\ pc = "order_post"
    /\ calls[1].funder = <<"0xF00D">>
    /\ client[1].funder = <<"0xF00D">>

\* the most remote calls one command of the given word can make
CallBound(w) ==
    CASE w = "probe" -> 2 * Len(sig_types)
      [] w = "order" -> 4
      [] w \in {"auth", "balance", "cancel"} -> 2
      [] w = "markets" -> 1
      [] OTHER -> 0

\* C23: with a finite input and remote calls that all return, the loop
\* eventually stops; lines are taken one by one in order, each only once
\* the one before it is finished and none after an exit or quit, and
\* every command makes at most a fixed number of remote calls.
C23_Terminates ==
    /\ <>(pc = "done")
    /\ [](pc = "done" => (inflight = {} /\ (IsExitLine \/ nread <= MaxLines)))
    /\ []((nread > 0 /\ Parses(line)) =>
             Len(calls) <= CallBound(Arm(Parsed(line).cmd)))
    /\ []((nread > 0 /\ ~Parses(line)) => calls = <<>>)
    /\ [][nread' # nread =>
             /\ nread' = nread + 1
             /\ pc = "read"
             /\ inflight = {}
             /\ ~IsExitLine]_vars
    /\ [][pc = "done" => pc' = "done"]_vars

C23_Witness ==
    /\ pc = "done"
    /\ nread = 2
    /\ written >= 1
    /\ LineIs("probe")
    /\ Len(calls) = 2 * Len(sig_types)
    /\ inflight = {}
====
